---- MODULE Spec2Model ----
(***************************************************************************)
(* SPTM ML service (src/sptm/ml-service/app.py): a Flask application with  *)
(* three view functions and two error handlers, started by app.run.        *)
(*                                                                         *)
(* The state is the process environment (FLASK_ENV, PORT), the start-up    *)
(* result (host, port, debug), a wall clock, and the requests in flight on *)
(* the server's handler threads.  A request is received on a thread and    *)
(* then dispatched: URL matching, the view function or the automatic       *)
(* OPTIONS answer, and the framework's exception handling, in one step.    *)
(* A response is the response object the application returns.              *)
(***************************************************************************)
EXTENDS Integers, Sequences, FiniteSets, TLC

VARIABLES environ, flaskStrictJson, phase, host, port, debug, now, slot, failedSeen

vars == <<environ, flaskStrictJson, phase, host, port, debug, now, slot, failedSeen>>

(* ------------------------------ bounds -------------------------------- *)

\* The wall clock advances at most this many ticks.
MaxClock == 1

\* The handler threads of the (threaded) development server that are modelled.
Threads == {"t1", "t2"}

(* ---------------------------- environment ----------------------------- *)

\* os.environ: a variable maps to the set of its values, empty when the
\* variable is not set and a singleton when it is.
Unset == {}

\* Values of FLASK_ENV: not set, the two usual ones, and one that differs
\* from "development" in case only.
FlaskEnvValues == {Unset, {"development"}, {"production"}, {"Development"}}

\* Values of PORT, as character sequences: not set, a decimal number,
\* a non-number and the empty string.
PortValues == {Unset, {<<"8", "0", "8", "0">>}, {<<"a", "b", "c">>}, {<<>>}}

\* os.getenv returns None for a variable that is not set.
None == "<None>"

IsSet(env, key) == env[key] # Unset

\* os.getenv(key, default)
getenv(env, key, default) ==
    IF IsSet(env, key) THEN CHOOSE v \in env[key] : TRUE ELSE default

Digits == {"0", "1", "2", "3", "4", "5", "6", "7", "8", "9"}

DigitValue(c) ==
    CASE c = "0" -> 0 [] c = "1" -> 1 [] c = "2" -> 2 [] c = "3" -> 3
      [] c = "4" -> 4 [] c = "5" -> 5 [] c = "6" -> 6 [] c = "7" -> 7
      [] c = "8" -> 8 [] c = "9" -> 9

RECURSIVE DecimalValue(_)
DecimalValue(s) ==
    IF s = <<>> THEN 0
    ELSE 10 * DecimalValue(SubSeq(s, 1, Len(s) - 1)) + DigitValue(s[Len(s)])

\* int(s) of a string raises ValueError unless s is a decimal numeral.
IsIntLiteral(s) ==
    /\ Len(s) > 0
    /\ \A i \in 1..Len(s) : s[i] \in Digits

\* int(s) for a decimal numeral s.
int(s) == DecimalValue(s)

(* ------------------------------ requests ------------------------------ *)

Methods == {"GET", "POST", "PUT", "HEAD", "OPTIONS"}

Paths == {"/ping", "/api/v1/eta", "/api/v1/status", "/health", "/predict-eta"}

JsonType == "application/json"

ContentTypes == {JsonType, None}

\* Request bodies: no bytes, a JSON object such as {}, a JSON document of
\* nested arrays deeper than the interpreter's recursion limit, and bytes
\* that are no JSON document.
Bodies == {"empty", "object", "deep", "malformed"}

ValidJsonBodies == {"object", "deep"}

\* Requests the clients send: any method on any path without a body, and
\* POST /api/v1/eta with every content type and body.
Requests ==
    [method : Methods, path : Paths, ctype : {None}, body : {"empty"}]
    \cup [method : {"POST"}, path : {"/api/v1/eta"}, ctype : ContentTypes, body : Bodies]

(* ------------------------------ routing ------------------------------- *)

\* A URL map in which the health check is also registered as /health.
url_map_with_health ==
    { [rule |-> "/ping",          endpoint |-> "ping",          methods |-> {"GET"}],
      [rule |-> "/health",        endpoint |-> "ping",          methods |-> {"GET"}],
      [rule |-> "/api/v1/eta",    endpoint |-> "calculate_eta", methods |-> {"POST"}],
      [rule |-> "/api/v1/status", endpoint |-> "status",        methods |-> {"GET"}] }

\* app.url_map: the rules the three @app.route decorators register.
url_map ==
    { [rule |-> "/ping",          endpoint |-> "ping",          methods |-> {"GET"}],
      [rule |-> "/api/v1/eta",    endpoint |-> "calculate_eta", methods |-> {"POST"}],
      [rule |-> "/api/v1/status", endpoint |-> "status",        methods |-> {"GET"}] }

\* URL matching that looks at the path only, as if the routes declared no
\* methods.
match_request_any_method(req) ==
    LET hits == {r \in url_map : r.rule = req.path}
    IN  IF hits = {} THEN [endpoint |-> None, exc |-> "NotFound"]
        ELSE [endpoint |-> (CHOOSE r \in hits : TRUE).endpoint, exc |-> None]

\* The methods a rule answers: the declared ones, HEAD wherever GET is
\* declared, and the automatic OPTIONS.
RuleMethods(r) ==
    r.methods \cup (IF "GET" \in r.methods THEN {"HEAD"} ELSE {}) \cup {"OPTIONS"}

\* URL matching of one request: the endpoint of the rule that matches path
\* and method, or the routing exception.
match_request(req) ==
    LET hits == {r \in url_map : r.rule = req.path}
        ok   == {r \in hits : req.method \in RuleMethods(r)}
    IN  IF hits = {} THEN [endpoint |-> None, exc |-> "NotFound"]
        ELSE IF ok = {} THEN [endpoint |-> None, exc |-> "MethodNotAllowed"]
        ELSE [endpoint |-> (CHOOSE r \in ok : TRUE).endpoint, exc |-> None]

(* --------------------------- view functions --------------------------- *)

\* What a call returns: a (status, body) pair, or the exception it raised.
Return(code, payload) == [raised |-> None, status |-> code, body |-> payload]

Raise(e) == [raised |-> e, status |-> 0, body |-> [html |-> ""]]

\* What request.get_json() returns when it does not raise.
Parsed(v) == [raised |-> None, value |-> v]

ping(t) ==
    Return(200, [status    |-> "OK",
                 message   |-> "SPTM ML Service is running",
                 timestamp |-> t,
                 service   |-> "ml-service"])

\* request.get_json(): None (or 415, from Flask 2.1 on) without a JSON
\* content type; otherwise the parsed document, 400 when the bytes are no
\* JSON document, and the parser's RecursionError when the document nests
\* deeper than the recursion limit.
get_json(req, strict) ==
    IF req.ctype # JsonType
    THEN IF strict THEN Raise("UnsupportedMediaType") ELSE Parsed(None)
    ELSE CASE req.body = "object" -> Parsed("object")
           [] req.body = "deep"   -> Raise("RecursionError")
           [] OTHER               -> Raise("BadRequest")

base_eta == 15

\* The confidence 0.85, in hundredths.
ConfidenceHundredths == 85

calculate_eta(req, strict, t) ==
    LET data == get_json(req, strict)
    IN  IF data.raised # None THEN data
        ELSE Return(200, [eta_minutes |-> base_eta,
                          confidence  |-> ConfidenceHundredths,
                          factors     |-> <<"traffic", "weather", "historical_data">>,
                          timestamp   |-> t])

\* A status view that reports a fixed environment.
status_hardcoded(env) ==
    Return(200, [service       |-> "SPTM ML Service",
                 version       |-> "1.0.0",
                 environment   |-> "development",
                 models_loaded |-> TRUE])

status(env) ==
    Return(200, [service       |-> "SPTM ML Service",
                 version       |-> "1.0.0",
                 environment   |-> getenv(env, "FLASK_ENV", "development"),
                 models_loaded |-> TRUE])

(* --------------------------- error handlers --------------------------- *)

\* A 404 handler that returns its body without the status code.
not_found_without_status(req) ==
    Return(200, [error |-> "Endpoint not found", path |-> req.path])

not_found(req) ==
    Return(404, [error |-> "Endpoint not found", path |-> req.path])

\* A 500 handler that puts the exception in the message.
internal_error_leaking(e) ==
    Return(500, [error |-> "Internal server error", message |-> e])

internal_error(e) ==
    Return(500, [error |-> "Internal server error", message |-> "Something went wrong"])

(* ------------------------- request dispatching ------------------------ *)

HTTPExceptions == {"NotFound", "MethodNotAllowed", "BadRequest", "UnsupportedMediaType"}

HttpCode(e) ==
    CASE e = "NotFound"             -> 404
      [] e = "MethodNotAllowed"     -> 405
      [] e = "BadRequest"           -> 400
      [] e = "UnsupportedMediaType" -> 415

\* A response, with the function that produced it.
By(h, rv) == [status |-> rv.status, body |-> rv.body, handler |-> h]

\* dispatch_request: the routing exception is raised, OPTIONS is answered
\* automatically, any other method calls the view function of the endpoint.
dispatch_request(req, m, env, strict, t) ==
    IF m.exc # None THEN Raise(m.exc)
    ELSE IF req.method = "OPTIONS"
    THEN Return(200, [allow |-> UNION {RuleMethods(r) : r \in {x \in url_map : x.rule = req.path}}])
    ELSE CASE m.endpoint = "ping"          -> ping(t)
           [] m.endpoint = "calculate_eta" -> calculate_eta(req, strict, t)
           [] m.endpoint = "status"        -> status(env)

\* handle_http_exception: the handler registered for the status code, or
\* the exception itself as the response.
handle_http_exception(e, req) ==
    IF HttpCode(e) = 404 THEN By("not_found", not_found(req))
    ELSE By("werkzeug", Return(HttpCode(e), [html |-> e]))

\* handle_exception: in debug mode the exception propagates to the server's
\* debugger, which answers 500 with the traceback; otherwise the handler
\* registered for 500 answers.
handle_exception(e, dbg) ==
    IF dbg THEN By("debugger", Return(500, [html |-> "Traceback", exception |-> e]))
    ELSE By("internal_error", internal_error(e))

\* wsgi_app: one request, from URL matching to the response.
wsgi_app(req, env, strict, dbg, t) ==
    LET m  == match_request(req)
        rv == dispatch_request(req, m, env, strict, t)
        rs == IF rv.raised = None
              THEN By(IF req.method = "OPTIONS" THEN "options" ELSE m.endpoint, rv)
              ELSE IF rv.raised \in HTTPExceptions
              THEN handle_http_exception(rv.raised, req)
              ELSE handle_exception(rv.raised, dbg)
    IN  [status   |-> rs.status,
         body     |-> rs.body,
         handler  |-> rs.handler,
         endpoint |-> m.endpoint,
         raised   |-> rv.raised]

(* ------------------------------ start-up ------------------------------ *)

DefaultPort == 5000

\* A start-up that never reads PORT.
main_port_ignoring_env(env) == DefaultPort

\* port = int(os.getenv('PORT', 5000))
main_port(env) ==
    IF IsSet(env, "PORT") THEN int(getenv(env, "PORT", None)) ELSE DefaultPort

\* A start-up that gives FLASK_ENV the default the status view gives it.
main_debug_defaulting(env) == getenv(env, "FLASK_ENV", "development") = "development"

\* debug = os.getenv('FLASK_ENV') == 'development'
main_debug(env) == getenv(env, "FLASK_ENV", None) = "development"

\* app.run(host='0.0.0.0', ...)
main_host == "0.0.0.0"

(* ------------------------------- state -------------------------------- *)

NoReq == [method |-> None, path |-> None, ctype |-> None, body |-> None]

NoResp == [status |-> 0, body |-> [html |-> ""], handler |-> None,
           endpoint |-> None, raised |-> None]

IdleSlot == [st |-> "idle", req |-> NoReq, resp |-> NoResp, after |-> FALSE]

\* The module is imported: the application object exists, the routes and
\* error handlers are registered, the __main__ block has not run.
Init ==
    /\ environ \in [FLASK_ENV : FlaskEnvValues, PORT : PortValues]
    /\ flaskStrictJson \in BOOLEAN
    /\ phase = "loaded"
    /\ host = None
    /\ port = 0
    /\ debug = FALSE
    /\ now = 0
    /\ slot = [t \in Threads |-> IdleSlot]
    /\ failedSeen = FALSE

\* The __main__ block: int() of a PORT that is no numeral raises ValueError
\* and the process exits; otherwise the server starts.
Main ==
    /\ phase = "loaded"
    /\ IF IsSet(environ, "PORT") /\ ~IsIntLiteral(getenv(environ, "PORT", None))
       THEN /\ phase' = "crashed"
            /\ UNCHANGED <<host, port, debug>>
       ELSE /\ port' = main_port(environ)
            /\ debug' = main_debug(environ)
            /\ host' = main_host
            /\ phase' = "serving"
    /\ UNCHANGED <<environ, flaskStrictJson, now, slot, failedSeen>>

\* The wall clock advances.
Tick ==
    /\ now < MaxClock
    /\ now' = now + 1
    /\ UNCHANGED <<environ, flaskStrictJson, phase, host, port, debug, slot, failedSeen>>

\* The server accepts a request and hands it to a free handler thread.
Receive(t, r) ==
    /\ phase = "serving"
    /\ slot[t].st \in {"idle", "done"}
    /\ slot' = [slot EXCEPT ![t] = [st |-> "received", req |-> r, resp |-> NoResp,
                                   after |-> failedSeen]]
    /\ UNCHANGED <<environ, flaskStrictJson, phase, host, port, debug, now, failedSeen>>

\* A handler thread runs the application on its request and answers it.
Dispatch(t) ==
    /\ phase = "serving"
    /\ slot[t].st = "received"
    /\ LET resp == wsgi_app(slot[t].req, environ, flaskStrictJson, debug, now)
       IN  /\ slot' = [slot EXCEPT ![t].st = "done", ![t].resp = resp]
           /\ failedSeen' = (failedSeen \/ resp.status \in {404, 500})
    /\ UNCHANGED <<environ, flaskStrictJson, phase, host, port, debug, now>>

Next ==
    \/ Main
    \/ Tick
    \/ \E t \in Threads, r \in Requests : Receive(t, r)
    \/ \E t \in Threads : Dispatch(t)

Spec == Init /\ [][Next]_vars

(* ----------------------------- properties ----------------------------- *)

Done(t) == slot[t].st = "done"

Req(t) == slot[t].req

Resp(t) == slot[t].resp

EtaPost(t) == Req(t).method = "POST" /\ Req(t).path = "/api/v1/eta"

NotFoundBody(p) == [error |-> "Endpoint not found", path |-> p]

GenericErrorBody == [error |-> "Internal server error", message |-> "Something went wrong"]

IsEtaAnswer(rs) ==
    /\ rs.status = 200
    /\ "eta_minutes" \in DOMAIN rs.body
    /\ rs.body.eta_minutes = 15
    /\ rs.body.confidence = 85

\* The path has a rule in the URL map.
Registered(p) == \E r \in url_map : r.rule = p

\* The method is one the route declares for the path.
Declared(p, m) == \E r \in url_map : r.rule = p /\ m \in r.methods

\* The request raised an exception that is no HTTP exception.
Faulted(t) == Resp(t).raised \notin (HTTPExceptions \cup {None})

\* C1: every POST /api/v1/eta whose body is a valid JSON document or empty
\* is answered 200 with eta_minutes 15 and confidence 0.85, whatever the
\* body and the content type.
C1_EtaAlwaysAnswered ==
    \A t \in Threads :
        (Done(t) /\ EtaPost(t) /\ Req(t).body \in (ValidJsonBodies \cup {"empty"}))
            => IsEtaAnswer(Resp(t))

\* C2: a request, with any method, whose path matches no registered route
\* is answered 404 with the body {error: "Endpoint not found", path: p}, p
\* the path of the request.
C2_UnmatchedIs404 ==
    \A t \in Threads :
        (Done(t) /\ ~Registered(Req(t).path))
            => /\ Resp(t).status = 404
               /\ Resp(t).body = NotFoundBody(Req(t).path)

C2_Witness ==
    \E t \in Threads :
        /\ Done(t)
        /\ Req(t).path = "/predict-eta"
        /\ Req(t).method = "PUT"
        /\ Resp(t).status = 404

\* C3 as stated: whenever a handler raises an unhandled fault, with debug
\* mode on or off, the answer is 500 with the generic body and no detail of
\* the fault.
C3_FaultIsGeneric500 ==
    \A t \in Threads :
        (Done(t) /\ Faulted(t))
            => /\ Resp(t).status = 500
               /\ Resp(t).body = GenericErrorBody

\* C3 amended: with debug mode off a fault is answered by internal_error
\* with 500 and the generic body; with debug mode on it is answered 500 by
\* the debugger, with the fault in the body.
C3_FaultIsGeneric500UnlessDebug ==
    \A t \in Threads :
        (Done(t) /\ Faulted(t))
            => /\ Resp(t).status = 500
               /\ ~debug => /\ Resp(t).handler = "internal_error"
                            /\ Resp(t).body = GenericErrorBody
               /\ debug => /\ Resp(t).handler = "debugger"
                           /\ Resp(t).body.exception = Resp(t).raised

C3_Witness ==
    \E t \in Threads :
        /\ Done(t)
        /\ Resp(t).raised = "RecursionError"
        /\ ~debug
        /\ Resp(t).status = 500

\* C4 as stated: GET /health and POST /predict-eta are answered 200 with
\* their bodies, as are GET /ping, POST /api/v1/eta (here: with a JSON
\* object as the body) and GET /api/v1/status.
C4_SupersetOfRoutes ==
    \A t \in Threads :
        Done(t) =>
            /\ (Req(t).method = "GET" /\ Req(t).path = "/health")
                   => /\ Resp(t).status = 200
                      /\ Resp(t).body = [status  |-> "OK",
                                         message |-> "SPTM ML Service is running"]
            /\ (Req(t).method = "POST" /\ Req(t).path = "/predict-eta")
                   => /\ Resp(t).status = 200
                      /\ Resp(t).body = [eta_minutes |-> 15, confidence |-> 85,
                                         message |-> "ETA prediction (placeholder)"]
            /\ (Req(t).method = "GET" /\ Req(t).path \in {"/ping", "/api/v1/status"})
                   => Resp(t).status = 200
            /\ (EtaPost(t) /\ Req(t).ctype = JsonType /\ Req(t).body = "object")
                   => Resp(t).status = 200

\* C4 amended: only /ping, /api/v1/eta and /api/v1/status are routes.  GET
\* /ping and GET /api/v1/status are answered 200 by their view functions,
\* POST /api/v1/eta is routed to calculate_eta (and answered 200 with
\* eta_minutes 15 and confidence 0.85 when the body is a JSON object of JSON
\* content type); /health and /predict-eta are answered 404 "Endpoint not
\* found" with every method.
C4_ThreeRoutesOnly ==
    \A t \in Threads :
        Done(t) =>
            /\ (Req(t).method = "GET" /\ Req(t).path = "/ping")
                   => Resp(t).status = 200 /\ Resp(t).handler = "ping"
            /\ (Req(t).method = "GET" /\ Req(t).path = "/api/v1/status")
                   => Resp(t).status = 200 /\ Resp(t).handler = "status"
            /\ EtaPost(t) => Resp(t).endpoint = "calculate_eta"
            /\ (EtaPost(t) /\ Req(t).ctype = JsonType /\ Req(t).body = "object")
                   => IsEtaAnswer(Resp(t)) /\ Resp(t).handler = "calculate_eta"
            /\ Req(t).path \in {"/health", "/predict-eta"}
                   => /\ Resp(t).status = 404
                      /\ Resp(t).body = NotFoundBody(Req(t).path)

C4_Witness ==
    \E t \in Threads :
        /\ Done(t)
        /\ Req(t).method = "GET"
        /\ Req(t).path = "/health"
        /\ Resp(t).status = 404

\* C5: GET /api/v1/status reports the value of FLASK_ENV as environment
\* when the variable is set and "development" when it is not, with service
\* "SPTM ML Service", version "1.0.0" and models_loaded true.
C5_StatusEnvironment ==
    \A t \in Threads :
        (Done(t) /\ Req(t).method = "GET" /\ Req(t).path = "/api/v1/status")
            => /\ Resp(t).status = 200
               /\ Resp(t).body.service = "SPTM ML Service"
               /\ Resp(t).body.version = "1.0.0"
               /\ Resp(t).body.models_loaded = TRUE
               /\ DOMAIN Resp(t).body = {"service", "version", "environment", "models_loaded"}
               /\ IF environ.FLASK_ENV = Unset
                  THEN Resp(t).body.environment = "development"
                  ELSE Resp(t).body.environment \in environ.FLASK_ENV

C5_Witness ==
    \E t \in Threads :
        /\ Done(t)
        /\ Req(t).method = "GET"
        /\ Req(t).path = "/api/v1/status"
        /\ environ.FLASK_ENV = {"production"}
        /\ Resp(t).body.environment = "production"

\* A response without its timestamp field.
StripTimestamp(rs) ==
    [status |-> rs.status,
     body   |-> [k \in (DOMAIN rs.body) \ {"timestamp"} |-> rs.body[k]]]

\* C6: under any interleaving a response is, apart from its timestamp, a
\* function of the route and the method of the request only (FLASK_ENV is
\* fixed): two answered requests with the same method and path have the
\* same response.
C6_ResponseByRouteAndMethod ==
    \A t1, t2 \in Threads :
        (/\ Done(t1)
         /\ Done(t2)
         /\ Req(t1).method = Req(t2).method
         /\ Req(t1).path = Req(t2).path)
            => StripTimestamp(Resp(t1)) = StripTimestamp(Resp(t2))

\* C7: after requests that ended in 404 or 500 the service is still
\* running, and every later request to a valid route (a registered path
\* with a method declared for it) is answered 200.
C7_LaterRequestsAnswered200 ==
    /\ failedSeen => phase = "serving"
    /\ \A t \in Threads :
           (Done(t) /\ slot[t].after /\ Declared(Req(t).path, Req(t).method))
               => Resp(t).status = 200

\* C8: once started the service listens on 0.0.0.0, on the port PORT names
\* or on 5000 when PORT is not set, and debug mode is on exactly when
\* FLASK_ENV is "development".
C8_StartupBinding ==
    phase = "serving"
        => /\ host = "0.0.0.0"
           /\ environ.PORT \in {Unset, {<<"8", "0", "8", "0">>}}
           /\ environ.PORT = Unset => port = 5000
           /\ environ.PORT # Unset => port = 8080
           /\ debug <=> (environ.FLASK_ENV = {"development"})

C8_Witness ==
    /\ phase = "serving"
    /\ environ.PORT # Unset
    /\ port = 8080
    /\ debug

\* C9: a request on a registered path with a method the route does not
\* declare (HEAD and OPTIONS aside) is answered 405, by no view function,
\* with neither the 404 body nor the generic 500 body.
C9_WrongMethodIs405 ==
    \A t \in Threads :
        (/\ Done(t)
         /\ Registered(Req(t).path)
         /\ Req(t).method \notin {"HEAD", "OPTIONS"}
         /\ ~Declared(Req(t).path, Req(t).method))
            => /\ Resp(t).status = 405
               /\ Resp(t).handler \notin {"ping", "calculate_eta", "status"}
               /\ Resp(t).body # NotFoundBody(Req(t).path)
               /\ Resp(t).body # GenericErrorBody

C9_Witness ==
    \E t \in Threads :
        /\ Done(t)
        /\ Req(t).method = "POST"
        /\ Req(t).path = "/ping"
        /\ Resp(t).status = 405

StatusAnswered(t) ==
    /\ Done(t)
    /\ Req(t).method = "GET"
    /\ Req(t).path = "/api/v1/status"
    /\ Resp(t).status = 200

\* C10 as stated: whatever FLASK_ENV is, GET /api/v1/status reports the
\* environment "development" exactly when the service runs in debug mode.
C10_EnvironmentIffDebug ==
    \A t \in Threads :
        StatusAnswered(t) => (Resp(t).body.environment = "development" <=> debug)

\* C10 amended: when FLASK_ENV is set the status endpoint reports
\* "development" exactly when the service runs in debug mode; when it is
\* not set the endpoint reports "development" and debug mode is off.
C10_EnvironmentIffDebugWhenSet ==
    \A t \in Threads :
        StatusAnswered(t)
            => IF environ.FLASK_ENV # Unset
               THEN Resp(t).body.environment = "development" <=> debug
               ELSE Resp(t).body.environment = "development" /\ ~debug

C10_Witness ==
    \E t \in Threads :
        /\ StatusAnswered(t)
        /\ environ.FLASK_ENV = Unset
        /\ Resp(t).body.environment = "development"
        /\ ~debug

====
